---- MODULE Spec2Model ----
(***************************************************************************)
(* Model of orokusaki/Tic-Tac-Toe: the strategy engine                     *)
(* (tictactoe/game/strategy.py: Square, Board, negamax search) and the     *)
(* make_move view that drives it (tictactoe/game/views.py).                *)
(*                                                                         *)
(* A squares dict is a function from the keys 0..8 to the player of the    *)
(* Square stored there: "X", "O" or "None" (Square.player is None).        *)
(***************************************************************************)
EXTENDS Integers, Sequences, FiniteSets, TLC

\* Square.player of an empty Square (strategy.py:46).
None == "None"

\* The keys Board.__init__ makes sure exist: range(9) (strategy.py:62).
Positions == 0 .. 8

\* A dict with ints 0..8 as keys iterates in ascending key order.
Keys == <<0, 1, 2, 3, 4, 5, 6, 7, 8>>

\* The two players, in the order `for player in ('X', 'O')` visits them.
Players == <<"X", "O">>

MIN == -1

MAX == 1

\* 1e10000 is the float infinity; every score lies in -10 .. 10.
Infinity == 1000

winning_combos ==
    << <<0, 1, 2>>, <<3, 4, 5>>, <<6, 7, 8>>, <<0, 3, 6>>, <<1, 4, 7>>,
       <<2, 5, 8>>, <<0, 4, 8>>, <<2, 4, 6>> >>

\* The positions of each winning combo.
Combos == {{winning_combos[c][p] : p \in 1 .. 3} : c \in 1 .. Len(winning_combos)}

\* Square(player): the value kept is the Square's player.
Square(player) == player

\* Square.empty
empty(square) == square = None

\* The squares of a dict that holds no move.
EmptySquares == [k \in Positions |-> Square(None)]

\* `x in list`
InList(x, list) == \E i \in 1 .. Len(list) : list[i] = x

max(a, b) == IF a >= b THEN a ELSE b

min(a, b) == IF a <= b THEN a ELSE b

\* Board.available_moves
available_moves(squares) == SelectSeq(Keys, LAMBDA k : empty(squares[k]))

\* Board.get_squares
get_squares(squares, player) == SelectSeq(Keys, LAMBDA k : squares[k] = player)

\* Board.owned_or_vacant
owned_or_vacant(squares, player) ==
    available_moves(squares) \o get_squares(squares, player)

\* Board.get_enemy
get_enemy(player) == IF player = "X" THEN "O" ELSE "X"

\* The inner loops of Board.winner for one player: some combo has every
\* position in get_squares(player), the keys whose Square has that player.
owns_combo(squares, player) ==
    \E combo \in Combos : \A pos \in combo : squares[pos] = player

\* Board.winner with `return None` inside the loop over the players: only 'X'
\* is ever looked at.
winner_first_player_only(squares) ==
    IF owns_combo(squares, Players[1]) THEN Players[1] ELSE None

\* Board.winner: the first player of ('X', 'O') owning every position of a combo.
winner(squares) ==
    IF owns_combo(squares, Players[1]) THEN Players[1]
    ELSE IF owns_combo(squares, Players[2]) THEN Players[2]
    ELSE None

\* The inner loops of Board.complete for one player: some combo has every
\* position in owned_or_vacant(player), the keys whose Square is empty or has
\* that player.
combo_available(squares, player) ==
    \E combo \in Combos :
        \A pos \in combo : empty(squares[pos]) \/ squares[pos] = player

\* Board.complete as "a winner, or no move left".
complete_winner_or_full(squares) ==
    \/ owns_combo(squares, Players[1])
    \/ owns_combo(squares, Players[2])
    \/ \A k \in Positions : ~empty(squares[k])

\* Board.complete: `return True` sits in the body of the outer loop, after the
\* inner loop, so the outer loop ends in its first iteration, player 'X'; every
\* `return` of the inner loop returns the same value.
complete(squares) ==
    IF combo_available(squares, Players[1])
    THEN winner(squares) # None
    ELSE TRUE

\* Board.tied
tied(squares) == complete(squares) = TRUE /\ winner(squares) = None

\* Board.make_move: stores a new Square at the position, whatever was there.
make_move(squares, position, player) ==
    [squares EXCEPT ![position] = Square(player)]

\* Board.heuristic scoring any win as the player's own.
heuristic_any_win(squares, player) ==
    LET value == IF winner(squares) # None THEN 1
                 ELSE CASE tied(squares) -> 0
        multiplier == Len(available_moves(squares)) + 1
    IN  value * multiplier

\* Board.heuristic with no multiplier: the value alone.
heuristic_value_only(squares, player) ==
    IF winner(squares) = player THEN 1
    ELSE IF tied(squares) THEN 0
    ELSE CASE winner(squares) = get_enemy(player) -> -1

\* Board.heuristic with `multiplier = len(self.available_moves)`.
heuristic_moves_left(squares, player) ==
    LET value == IF winner(squares) = player THEN 1
                 ELSE IF tied(squares) THEN 0
                 ELSE CASE winner(squares) = get_enemy(player) -> -1
        multiplier == Len(available_moves(squares))
    IN  value * multiplier

\* Board.heuristic. No branch binds `value` on a board that is not complete:
\* the CASE has no arm for it, as the method has no value to return.
heuristic(squares, player) ==
    LET value == IF winner(squares) = player THEN 1
                 ELSE IF tied(squares) THEN 0
                 ELSE CASE winner(squares) = get_enemy(player) -> -1
        multiplier == Len(available_moves(squares)) + 1
    IN  value * multiplier

\* `board = self` in place of a copy: the same object under another name.
same_object(squares) == [squares |-> squares, shared |-> TRUE]

\* copy.deepcopy of a Board: a new object with the same squares, sharing no
\* state with the original.
deepcopy(squares) == [squares |-> squares, shared |-> FALSE]

RECURSIVE negamax(_, _, _, _, _, _)
RECURSIVE negamax_loop(_, _, _, _, _, _, _, _)
RECURSIVE negamax_loop_last_score(_, _, _, _, _, _, _, _)

\* The loops of negamax with `alpha = score` and `beta = score` in place of
\* max(alpha, score) and min(beta, score): the best score so far is forgotten.
negamax_loop_last_score(board, moves, i, o_player, player, mm, alpha, beta) ==
    IF i > Len(moves)
    THEN [score |-> IF mm = MAX THEN alpha ELSE beta, board |-> board]
    ELSE LET r == negamax(make_move(board, moves[i], player), o_player,
                          get_enemy(player), -mm, alpha, beta)
             a == IF mm = MAX THEN r.score ELSE alpha
             b == IF mm = MIN THEN r.score ELSE beta
         IN  IF mm = MAX /\ a >= b THEN [score |-> b, board |-> board]
             ELSE IF mm = MIN /\ b <= a THEN [score |-> a, board |-> board]
             ELSE negamax_loop_last_score(board, moves, i + 1, o_player, player,
                                          mm, a, b)

\* Board.negamax. The result carries the score and the squares of the `board`
\* argument as the call leaves them.
negamax(board, o_player, player, mm, alpha, beta) ==
    IF complete(board)
    THEN [score |-> heuristic(board, o_player), board |-> board]
    ELSE negamax_loop(board, available_moves(board), 1, o_player, player, mm,
                      alpha, beta)

\* The `for move in board.available_moves` loops of negamax, from the i-th move.
negamax_loop(board, moves, i, o_player, player, mm, alpha, beta) ==
    IF i > Len(moves)
    THEN [score |-> IF mm = MAX THEN alpha ELSE beta, board |-> board]
    ELSE LET copy == deepcopy(board)
             moved == make_move(copy.squares, moves[i], player)
             r == negamax(moved, o_player, get_enemy(player), -mm, alpha, beta)
             after == IF copy.shared THEN r.board ELSE board
             a == IF mm = MAX THEN max(alpha, r.score) ELSE alpha
             b == IF mm = MIN THEN min(beta, r.score) ELSE beta
         IN  IF mm = MAX /\ a >= b THEN [score |-> b, board |-> after]
             ELSE IF mm = MIN /\ b <= a THEN [score |-> a, board |-> after]
             ELSE negamax_loop(after, moves, i + 1, o_player, player, mm, a, b)

\* The score best_move gives a move: the negamax value of the board after it,
\* the opponent to move and minimising, the window open.
root_score(self, move, player) ==
    negamax(make_move(deepcopy(self).squares, move, player), player,
            get_enemy(player), MIN, -Infinity, Infinity).score

\* The loop of best_move with `score >= highest`: the last maximum is kept.
RECURSIVE best_move_loop_last_max(_, _, _, _, _, _)
best_move_loop_last_max(self, moves, i, player, highest, best) ==
    IF i > Len(moves)
    THEN [move |-> best, squares |-> self]
    ELSE LET r == root_score(self, moves[i], player)
         IN  IF r >= highest
             THEN best_move_loop_last_max(self, moves, i + 1, player, r, moves[i])
             ELSE best_move_loop_last_max(self, moves, i + 1, player, highest, best)

\* The `for move in self.available_moves` loop of best_move, from the i-th move.
\* best is -1 while the local best_move is unbound.
RECURSIVE best_move_loop(_, _, _, _, _, _)
best_move_loop(self, moves, i, player, highest, best) ==
    IF i > Len(moves)
    THEN [move |-> best, squares |-> self]
    ELSE LET copy == deepcopy(self)
             moved == make_move(copy.squares, moves[i], player)
             r == negamax(moved, player, get_enemy(player), MIN,
                          -Infinity, Infinity)
             after == IF copy.shared THEN r.board ELSE self
         IN  IF r.score > highest
             THEN best_move_loop(after, moves, i + 1, player, r.score, moves[i])
             ELSE best_move_loop(after, moves, i + 1, player, highest, best)

\* Board.best_move whose shortcut returns the centre without looking at it.
best_move_centre_unchecked(self, player) ==
    IF Len(available_moves(self)) > 7
    THEN [move |-> 4, squares |-> self]
    ELSE best_move_loop(self, available_moves(self), 1, player, -Infinity, -1)

\* Board.best_move. move is the position returned, or -1 when `return best_move`
\* reads the unbound local (UnboundLocalError); squares are self's squares as
\* the call leaves them.
best_move(self, player) ==
    IF Len(available_moves(self)) > 7
    THEN IF InList(4, available_moves(self))
         THEN [move |-> 4, squares |-> self]
         ELSE [move |-> 0, squares |-> self]
    ELSE best_move_loop(self, available_moves(self), 1, player, -Infinity, -1)


(***************************************************************************)
(* State.                                                                  *)
(*   squares   the squares dict of the Board in use (board.squares)        *)
(*   defaults  the dict bound once to the default argument `squares={}` of *)
(*             Board.__init__; a key it lacks reads as an empty Square     *)
(*   alias     board.squares is that default dict                          *)
(*   turn      the player to move next                                     *)
(*   engine    the players whose moves best_move chooses                   *)
(*   game      the Game record of the view: complete, winner               *)
(*   last      the last call: its name, arguments, return value (ret, -1   *)
(*             when nothing is returned) and the exception it raised       *)
(***************************************************************************)
VARIABLES squares, defaults, alias, turn, engine, game, last

vars == <<squares, defaults, alias, turn, engine, game, last>>

Call(op, position, player, ret, raised) ==
    [op |-> op, position |-> position, player |-> player, ret |-> ret,
     raised |-> raised]

\* Game(): complete defaults to False, winner to NULL (models.py:36-37).
NewGameRecord == [complete |-> FALSE, winner |-> None]

\* The board of the module's doc-test (strategy.py:9-19).
DocTestSquares ==
    [k \in Positions |->
        IF k \in {0, 2, 7, 8} THEN Square("X")
        ELSE IF k \in {1, 4, 6} THEN Square("O")
        ELSE Square(None)]

\* Board.__init__(squares): keeps the dict it is given and fills its missing
\* keys with empty Squares; a missing key already reads as an empty Square.
BoardInit(given) == [k \in Positions |-> IF given[k] = None THEN Square(None) ELSE given[k]]

\* The default dict after a write through the board, when the board holds it.
DefaultsAfter(after) == IF alias THEN after ELSE defaults

(***************************************************************************)
(* The Board API used freely: Board() and make_move with any position and  *)
(* any player, as the class allows.                                        *)
(***************************************************************************)

\* board = Board()
NewBoard ==
    /\ squares' = BoardInit(defaults)
    /\ defaults' = BoardInit(defaults)
    /\ alias' = TRUE
    /\ last' = Call("Board", -1, None, -1, "")
    /\ UNCHANGED <<turn, engine, game>>

\* board.make_move(position, player)
MakeMove(position, player) ==
    /\ squares' = make_move(squares, position, player)
    /\ defaults' = DefaultsAfter(squares')
    /\ last' = Call("make_move", position, player, -1, "")
    /\ UNCHANGED <<alias, turn, engine, game>>

Init ==
    /\ squares = BoardInit(EmptySquares)
    /\ defaults = squares
    /\ alias = TRUE
    /\ turn = Players[1]
    /\ engine = {}
    /\ game = NewGameRecord
    /\ last = Call("Board", -1, None, -1, "")

Next ==
    \/ NewBoard
    \/ \E position \in Positions, player \in {"X", "O"} : MakeMove(position, player)

Spec == Init /\ [][Next]_vars

(***************************************************************************)
(* Games played through the Board API as the doc-test plays: while the     *)
(* board is not complete, the player to move places a move on an empty     *)
(* cell, chosen by best_move for the players in `engine` and freely for    *)
(* the others. best_move may also be called at any time for either player. *)
(***************************************************************************)

\* board.make_move(position, turn) for a player that chooses its own moves
PlayerMove(position) ==
    /\ turn \notin engine
    /\ ~complete(squares)
    /\ empty(squares[position])
    /\ squares' = make_move(squares, position, turn)
    /\ defaults' = DefaultsAfter(squares')
    /\ turn' = get_enemy(turn)
    /\ last' = Call("make_move", position, turn, -1, "")
    /\ UNCHANGED <<alias, engine, game>>

\* board.make_move(board.best_move(turn), turn)
EngineMove ==
    /\ turn \in engine
    /\ ~complete(squares)
    /\ \E found \in {best_move(squares, turn)} :
          IF found.move = -1
          THEN /\ squares' = found.squares
               /\ turn' = turn
               /\ last' = Call("best_move", -1, turn, -1, "UnboundLocalError")
          ELSE /\ squares' = make_move(found.squares, found.move, turn)
               /\ turn' = get_enemy(turn)
               /\ last' = Call("make_move", found.move, turn, -1, "")
    /\ defaults' = DefaultsAfter(squares')
    /\ UNCHANGED <<alias, engine, game>>

\* board.best_move(player)
BestMove(player) ==
    /\ \E found \in {best_move(squares, player)} :
          /\ squares' = found.squares
          /\ last' = Call("best_move", -1, player, found.move,
                          IF found.move = -1 THEN "UnboundLocalError" ELSE "")
    /\ defaults' = DefaultsAfter(squares')
    /\ UNCHANGED <<alias, turn, engine, game>>

\* A game starts from Board() or from the board of the doc-test. Against the
\* engine the other player opens, as in the web game; the engine also plays
\* itself, either side opening.
InitPlay ==
    /\ game = NewGameRecord
    /\ last = Call("Board", -1, None, -1, "")
    /\ \/ /\ squares = BoardInit(EmptySquares)
          /\ defaults = squares
          /\ alias = TRUE
          /\ \/ turn \in {"X", "O"} /\ engine = {get_enemy(turn)}
             \/ turn \in {"X", "O"} /\ engine = {"X", "O"}
       \/ /\ squares = BoardInit(DocTestSquares)
          /\ defaults = EmptySquares
          /\ alias = FALSE
          /\ turn = "O"
          /\ engine = {"O"}

NextPlay ==
    \/ \E position \in Positions : PlayerMove(position)
    \/ EngineMove
    \/ \E player \in {"X", "O"} : BestMove(player)

SpecPlay == InitPlay /\ [][NextPlay]_vars

(***************************************************************************)
(* Games of two players who choose their own moves: from the empty board,  *)
(* either side opening, the players place moves in turn on empty cells     *)
(* while the board is not complete. best_move may be asked at any board    *)
(* of the game for the side to move.                                       *)
(***************************************************************************)

InitGame ==
    /\ squares = BoardInit(EmptySquares)
    /\ defaults = squares
    /\ alias = TRUE
    /\ turn \in {"X", "O"}
    /\ engine = {}
    /\ game = NewGameRecord
    /\ last = Call("Board", -1, None, -1, "")

NextGame ==
    \/ \E position \in Positions : PlayerMove(position)
    \/ \E player \in {turn} : BestMove(player)

SpecGame == InitGame /\ [][NextGame]_vars

(***************************************************************************)
(* The search asked directly: at a board of such a game, negamax with the  *)
(* open window, as best_move calls it, for either side as o_player; the    *)
(* side to move maximises when it is o_player and minimises otherwise.     *)
(* `ret` of the call is the score returned. The search reads the board     *)
(* only, so it is asked at each board as a move leaves it, not again       *)
(* after its own answer.                                                   *)
(***************************************************************************)

\* The boards negamax is given have at most this many empty cells.
MaxSearched == 6

\* self.negamax(board, o_player, turn, mm, -1e10000, 1e10000)
Negamax(o_player) ==
    /\ Len(available_moves(squares)) <= MaxSearched
    /\ \E r \in {negamax(squares, o_player, turn,
                          IF o_player = turn THEN MAX ELSE MIN,
                          -Infinity, Infinity)} :
          /\ squares' = r.board
          /\ last' = Call("negamax", -1, o_player, r.score, "")
    /\ defaults' = DefaultsAfter(squares')
    /\ UNCHANGED <<alias, turn, engine, game>>

NextSearch ==
    \/ \E position \in Positions : PlayerMove(position)
    \/ \E o_player \in {"X", "O"} : last.op # "negamax" /\ Negamax(o_player)

SpecSearch == InitGame /\ [][NextSearch]_vars

(***************************************************************************)
(* The web game: the player is X and moves through the make_move view, the *)
(* computer is O and answers in the same request.                          *)
(***************************************************************************)

\* What a request of views.make_move leaves: the squares of the game's Move
\* rows, the Game record, the computer's move (ret, -1 when it made none) and
\* the exception met.
ViewResult(sq, g, ret, raised) ==
    [squares |-> sq, game |-> g, ret |-> ret, raised |-> raised]

\* The second half of views.make_move (lines 68-88): the computer's answer on
\* the board `moved` that the player's move left not complete.
view_computer_move(moved, g) ==
    LET found == best_move(BoardInit(moved), "O")
        replied == make_move(moved, found.move, "O")
    IN  IF found.move = -1
        THEN ViewResult(moved, g, -1, "UnboundLocalError")
        ELSE IF ~empty(moved[found.move])
        THEN ViewResult(moved, g, found.move, "IntegrityError")
        ELSE IF ~complete(BoardInit(replied))
        THEN ViewResult(replied, g, found.move, "")
        ELSE IF tied(BoardInit(replied))
        THEN ViewResult(replied, [g EXCEPT !.complete = TRUE], found.move, "")
        ELSE ViewResult(replied, [complete |-> TRUE, winner |-> "computer"],
                        found.move, "")

\* views.make_move(request, position), with sq = game.squares(player, computer)
\* rebuilt from the Move rows at each use.
view_make_move(sq, g, position) ==
    LET moved == make_move(sq, position, "X")
    IN  IF complete(BoardInit(sq))
        THEN ViewResult(sq, g, -1, "")
        ELSE IF ~empty(sq[position])
        THEN ViewResult(sq, g, -1, "IntegrityError")
        ELSE IF complete(BoardInit(moved))
        THEN IF ~tied(BoardInit(moved)) /\ winner(BoardInit(moved)) = "X"
             THEN ViewResult(moved, [complete |-> TRUE, winner |-> "player"],
                             -1, "")
             ELSE ViewResult(moved, g, -1, "")
        ELSE view_computer_move(moved, g)

\* A request of views.make_move that GameMiddleware lets through: the game of
\* the session is not complete.
ViewMakeMove(position) ==
    /\ ~game.complete
    /\ \E out \in {view_make_move(squares, game, position)} :
          /\ squares' = out.squares
          /\ game' = out.game
          /\ last' = Call("views.make_move", position, "X", out.ret, out.raised)
    /\ UNCHANGED <<defaults, alias, turn, engine>>

\* views.new_game: a new Game, with no Move, becomes the game of the session.
NewGame ==
    /\ squares' = EmptySquares
    /\ game' = NewGameRecord
    /\ last' = Call("views.new_game", -1, None, -1, "")
    /\ UNCHANGED <<defaults, alias, turn, engine>>

InitView ==
    /\ squares = EmptySquares
    /\ defaults = EmptySquares
    /\ alias = FALSE
    /\ turn = "X"
    /\ engine = {"O"}
    /\ game = NewGameRecord
    /\ last = Call("views.new_game", -1, None, -1, "")

NextView ==
    \/ \E position \in Positions : ViewMakeMove(position)
    \/ NewGame

SpecView == InitView /\ [][NextView]_vars

(***************************************************************************)
(* Vocabulary of the properties, stated on the cells and independent of    *)
(* the methods of Board.                                                   *)
(***************************************************************************)

\* The three rows, the three columns and the two diagonals of the 3x3 grid.
Lines ==
    {{3 * r, 3 * r + 1, 3 * r + 2} : r \in 0 .. 2}
        \cup {{c, c + 3, c + 6} : c \in 0 .. 2}
        \cup {{0, 4, 8}, {2, 4, 6}}

OwnsLine(s, player) == \E line \in Lines : \A k \in line : s[k] = player

EmptyCells(s) == {k \in Positions : s[k] = None}

Count(s, player) == Cardinality({k \in Positions : s[k] = player})

\* The numbers of X and O squares differ by at most one, as after alternating
\* moves on empty cells from the empty board.
Balanced(s) == Count(s, "X") - Count(s, "O") \in {-1, 0, 1}

\* The empty cells where a move of the player fills a line whose two other
\* cells the player holds.
WinningCells(s, player) ==
    {k \in EmptyCells(s) :
        \E line \in Lines : k \in line /\ \A j \in line \ {k} : s[j] = player}

\* The winner found when the sides are looked at in the order O, X.
WinnerOFirst(s) ==
    IF OwnsLine(s, "O") THEN "O" ELSE IF OwnsLine(s, "X") THEN "X" ELSE None

\* Plain minimax over the tree negamax searches, with no window: the
\* heuristic for o_player on a complete board, and otherwise the highest
\* (mm = MAX) or the lowest (mm = MIN) value of the boards after a move of
\* the player.
RECURSIVE minimax(_, _, _, _)
minimax(s, o_player, player, mm) ==
    IF complete(s)
    THEN heuristic(s, o_player)
    ELSE LET values == {minimax(make_move(s, k, player), o_player,
                                get_enemy(player), -mm) : k \in EmptyCells(s)}
         IN  IF mm = MAX
             THEN CHOOSE v \in values : \A w \in values : w <= v
             ELSE CHOOSE v \in values : \A w \in values : v <= w

(***************************************************************************)
(* C1                                                                      *)
(***************************************************************************)

\* C1: in the web game, where X opens on any empty cell and O answers each
\* time with best_move('O') while the board is not complete, no board has X
\* as its winner.
C1_PlayerNeverWins == winner(squares) # "X"

\* O answered with best_move and the game ended, here with O's win.
C1_Witness ==
    /\ last.op = "views.make_move"
    /\ last.ret \in Positions
    /\ squares[last.ret] = "O"
    /\ complete(squares)
    /\ winner(squares) = "O"

(***************************************************************************)
(* C2                                                                      *)
(***************************************************************************)

SelfPlay == engine = {"X", "O"}

\* C2: self-play from the empty board, either side opening, ends within 9
\* moves on a board with no winner that is tied: while the board is not
\* complete the side to move has a best_move, which is an empty cell, so each
\* move fills one more cell; a full board is complete; and every complete
\* board of self-play has no winner and is tied.
C2_SelfPlayEndsInDraw ==
    SelfPlay =>
        /\ ~complete(squares) => best_move(squares, turn).move \in EmptyCells(squares)
        /\ EmptyCells(squares) = {} => complete(squares)
        /\ complete(squares) => (winner(squares) = None /\ tied(squares))

\* A finished game of self-play.
C2_Witness ==
    /\ SelfPlay
    /\ last.op = "make_move"
    /\ complete(squares)
    /\ tied(squares)
    /\ Count(squares, "X") + Count(squares, "O") <= 9

(***************************************************************************)
(* C3                                                                      *)
(***************************************************************************)

DocTestAfterMove == make_move(DocTestSquares, 5, "O")

\* C4: the board of the doc-test is not complete, best_move('O') returns 5 on
\* it, and after make_move(5, 'O') the board is complete and tied.
C4_DocTest ==
    /\ squares = DocTestSquares => ~complete(squares)
    /\ (squares = DocTestSquares /\ last.op = "best_move" /\ last.player = "O")
          => last.ret = 5
    /\ (squares = DocTestAfterMove /\ last.op = "make_move")
          => (complete(squares) /\ tied(squares))
    /\ (last.op = "Board" /\ ~alias)
          => /\ squares = DocTestSquares
             /\ best_move(squares, "O").move = 5
             /\ make_move(squares, 5, "O") = DocTestAfterMove

\* The doc-test's board after its make_move(5, 'O').
C4_Witness ==
    /\ squares = DocTestAfterMove
    /\ ~alias
    /\ last = Call("make_move", 5, "O", -1, "")
    /\ tied(squares)

(***************************************************************************)
(* C5                                                                      *)
(***************************************************************************)

\* C5 as stated: a Board constructed with no arguments has all 9 cells empty,
\* whatever Boards were constructed and mutated before it.
C5_DefaultBoardIsEmpty ==
    last.op = "Board" => available_moves(squares) = Keys

(***************************************************************************)
(* C6                                                                      *)
(***************************************************************************)

\* C6 as stated: make_move on an occupied position raises IllegalMove and
\* leaves every cell of the board unchanged.
C6_OccupiedMoveRejected ==
    [][\A position \in Positions, player \in {"X", "O"} :
          (~empty(squares[position]) /\ MakeMove(position, player))
              => (squares' = squares /\ last'.raised = "IllegalMove")]_vars

(***************************************************************************)
(* C7                                                                      *)
(***************************************************************************)

\* C7 as stated: best_move on a board that is complete because a side has
\* won, or that has no available move, raises an error and returns no
\* position.
C7_BestMoveFailsOnCompleteBoard ==
    (last.op = "best_move"
        /\ (winner(squares) # None \/ available_moves(squares) = <<>>))
        => (last.raised # "" /\ last.ret = -1)

(***************************************************************************)
(* C8                                                                      *)
(***************************************************************************)

\* C8: best_move leaves the squares of the board it is called on as they
\* were, and a move chosen by best_move and then made changes that one cell
\* only: nothing tried during the search stays on the board.
C8_BestMoveLeavesBoard ==
    [][/\ last'.op = "best_move" => squares' = squares
       /\ last'.op = "make_move"
             => squares' = make_move(squares, last'.position, last'.player)]_vars

\* best_move has searched a board with 2 to 7 empty cells.
C8_Witness ==
    /\ last.op = "best_move"
    /\ last.ret \in Positions
    /\ ~complete(squares)
    /\ Cardinality(EmptyCells(squares)) \in 2 .. 7

(***************************************************************************)
(* C9                                                                      *)
(***************************************************************************)

\* C9: when one side owns a complete line and the other owns none, winner is
\* that side, complete is true and tied is false; when no side owns a complete
\* line, winner is None.
C9_WinnerIsLineOwner ==
    /\ \A player \in {"X", "O"} :
          (OwnsLine(squares, player) /\ ~OwnsLine(squares, get_enemy(player)))
              => /\ winner(squares) = player
                 /\ complete(squares)
                 /\ ~tied(squares)
    /\ (~OwnsLine(squares, "X") /\ ~OwnsLine(squares, "O"))
          => winner(squares) = None

\* Line {0, 1, 2} held by O and no other move made.
C9_Witness ==
    /\ \A k \in Positions : squares[k] = IF k \in {0, 1, 2} THEN "O" ELSE None
    /\ winner(squares) = "O"

(***************************************************************************)
(* C10                                                                     *)
(***************************************************************************)

\* C10: with more than 7 empty cells best_move returns 4 if cell 4 is empty
\* and 0 otherwise, and the cell it returns is empty.
C10_OpeningShortcut ==
    (last.op = "best_move" /\ Cardinality(EmptyCells(squares)) > 7)
        => /\ last.ret = IF squares[4] = None THEN 4 ELSE 0
           /\ last.ret \in EmptyCells(squares)
           /\ last.raised = ""

\* best_move has returned the corner 0 after a lone centre opening.
C10_Witness ==
    /\ last.op = "best_move"
    /\ EmptyCells(squares) = Positions \ {4}
    /\ last.ret = 0

(***************************************************************************)
(* C11                                                                     *)
(***************************************************************************)

\* C11: with 1 to 7 empty cells, best_move(player) returns an empty cell whose
\* search score is the highest of the empty cells and, among the cells with
\* that score, the one with the lowest index; the position returned is the
\* one the same board and side give again.
C11_FirstMaximum ==
    (last.op = "best_move" /\ Cardinality(EmptyCells(squares)) \in 1 .. 7)
        => LET score == [k \in EmptyCells(squares) |->
                            root_score(squares, k, last.player)]
           IN  /\ last.ret \in EmptyCells(squares)
               /\ \A k \in EmptyCells(squares) :
                     /\ score[k] <= score[last.ret]
                     /\ k < last.ret => score[k] < score[last.ret]
               /\ last.ret = best_move(squares, last.player).move

\* best_move has returned one of several cells with the highest score.
C11_Witness ==
    /\ last.op = "best_move"
    /\ Cardinality(EmptyCells(squares)) \in 2 .. 5
    /\ last.ret \in EmptyCells(squares)
    /\ \E k \in EmptyCells(squares) :
          /\ k > last.ret
          /\ root_score(squares, k, last.player)
                = root_score(squares, last.ret, last.player)

(***************************************************************************)
(* C12                                                                     *)
(***************************************************************************)

\* C12: on every complete board with e empty cells, heuristic(player) is e + 1
\* if player is the winner, -(e + 1) if the opponent is the winner and 0 if
\* the board is tied: a win is above a draw and a draw above a loss, and with
\* more empty cells a win scores higher and a loss lower.
C12_HeuristicValue ==
    complete(squares) =>
        \A player \in {"X", "O"} :
            LET e == Cardinality(EmptyCells(squares))
                h == heuristic(squares, player)
            IN  /\ winner(squares) = player => (h = e + 1 /\ h > 0)
                /\ winner(squares) = get_enemy(player) => (h = -(e + 1) /\ h < 0)
                /\ tied(squares) => h = 0

\* O has won with two cells left: X's score is -3, O's is 3.
C12_Witness ==
    /\ complete(squares)
    /\ winner(squares) = "O"
    /\ Cardinality(EmptyCells(squares)) = 2
    /\ heuristic(squares, "X") = -3
    /\ heuristic(squares, "O") = 3

(***************************************************************************)
(* C13                                                                     *)
(***************************************************************************)

\* C13 as stated: on a board that is complete with no winner, reached by
\* moves placed in turn on empty cells from the empty board, every one of the
\* 8 winning lines holds at least one X and at least one O.
C13_TiedBoardHasNoOpenLine ==
    (complete(squares) /\ winner(squares) = None)
        => \A line \in Lines :
              /\ \E k \in line : squares[k] = "X"
              /\ \E k \in line : squares[k] = "O"

(***************************************************************************)
(* C14                                                                     *)
(***************************************************************************)

\* C14: on a board of a game played in turn from the empty board that is not
\* complete and has at most 7 empty cells, if the side to move has no cell
\* that completes a line of its own and the opponent has exactly one cell
\* that completes an opponent line, best_move for the side to move returns
\* that cell.
C14_BlocksSingleThreat ==
    (/\ last.op = "best_move"
     /\ last.player = turn
     /\ ~complete(squares)
     /\ Cardinality(EmptyCells(squares)) <= 7
     /\ WinningCells(squares, turn) = {}
     /\ Cardinality(WinningCells(squares, get_enemy(turn))) = 1)
        => /\ last.raised = ""
           /\ WinningCells(squares, get_enemy(turn)) = {last.ret}

\* best_move has returned the one cell that stops the opponent's line, and
\* it is not the first empty cell.
C14_Witness ==
    /\ last.op = "best_move"
    /\ last.player = turn
    /\ ~complete(squares)
    /\ Cardinality(EmptyCells(squares)) <= 7
    /\ WinningCells(squares, turn) = {}
    /\ WinningCells(squares, get_enemy(turn)) = {last.ret}
    /\ \E k \in EmptyCells(squares) : k < last.ret

(***************************************************************************)
(* C15                                                                     *)
(***************************************************************************)

\* C15: on a board with no winner and 1 to 7 empty cells where the side to
\* move has an empty cell that completes one of its lines, best_move for that
\* side returns the lowest-index such cell, and the board after that move has
\* that side as winner.
C15_TakesImmediateWin ==
    (/\ last.op = "best_move"
     /\ winner(squares) = None
     /\ Cardinality(EmptyCells(squares)) \in 1 .. 7
     /\ WinningCells(squares, last.player) # {})
        => /\ last.ret \in WinningCells(squares, last.player)
           /\ \A k \in WinningCells(squares, last.player) : last.ret <= k
           /\ winner(make_move(squares, last.ret, last.player)) = last.player

\* best_move has returned a winning cell that is not the first empty cell,
\* on a board where a move that does not win at once is available.
C15_Witness ==
    /\ last.op = "best_move"
    /\ winner(squares) = None
    /\ Cardinality(EmptyCells(squares)) \in 3 .. 7
    /\ last.ret \in WinningCells(squares, last.player)
    /\ \E k \in EmptyCells(squares) :
          k < last.ret /\ k \notin WinningCells(squares, last.player)
    /\ winner(make_move(squares, last.ret, last.player)) = last.player

(***************************************************************************)
(* C16                                                                     *)
(***************************************************************************)

\* C16: on every board of a game played in turn and for either side as
\* o_player, the score negamax returns with the window (-infinity, +infinity)
\* is the value of plain minimax over the same tree: same terminal test,
\* same heuristic, o_player maximising and its opponent minimising.
C16_NegamaxIsMinimax ==
    last.op = "negamax"
        => last.ret = minimax(squares, last.player, turn,
                              IF last.player = turn THEN MAX ELSE MIN)

\* negamax has searched a board with 6 empty cells that is not complete, as
\* after the first move best_move tries on a board with 7 empty cells, and
\* found a win for o_player.
C16_Witness ==
    /\ last.op = "negamax"
    /\ last.player = get_enemy(turn)
    /\ ~complete(squares)
    /\ Cardinality(EmptyCells(squares)) = 6
    /\ last.ret > 0

(***************************************************************************)
(* C17                                                                     *)
(***************************************************************************)

\* C17 as stated: on every board in which each cell has at most one occupant,
\* at most one side owns a complete winning line, and winner is the same
\* whichever side it looks at first.
C17_AtMostOneLineOwner ==
    /\ ~(OwnsLine(squares, "X") /\ OwnsLine(squares, "O"))
    /\ winner(squares) = WinnerOFirst(squares)

\* C17 amended: a move placed on an empty cell of a board with no winner
\* leaves at most one side owning a complete line, and winner of the board
\* it leaves is the same whichever side is looked at first.
C17_OneLineOwnerWhilePlayStopsAtWin ==
    [][(/\ last'.op = "make_move"
        /\ winner(squares) = None
        /\ empty(squares[last'.position]))
           => /\ squares' = make_move(squares, last'.position, last'.player)
              /\ ~(OwnsLine(squares', "X") /\ OwnsLine(squares', "O"))
              /\ winner(squares') = WinnerOFirst(squares')]_vars

\* O has just filled the line {2, 4, 6} on a board that had no winner; X owns
\* no line.
C17_Witness ==
    /\ last = Call("make_move", 4, "O", -1, "")
    /\ \A k \in {2, 4, 6} : squares[k] = "O"
    /\ winner([squares EXCEPT ![4] = None]) = None
    /\ winner(squares) = "O"
    /\ ~OwnsLine(squares, "X")
    /\ Count(squares, "X") = 3

(***************************************************************************)
(* C18                                                                     *)
(***************************************************************************)

\* C18: after every request of the make_move view that leaves the board of
\* the game complete, won by the player, won by the computer or tied, the
\* Game record has complete = True; its winner is the computer when O owns a
\* line, the player when X owns one, and nobody (a cat's game) when the board
\* is tied. No record of a complete board has complete = False.
C18_FinishedGameIsSaved ==
    /\ complete(BoardInit(squares))
          => /\ game.complete
             /\ game.winner = CASE winner(BoardInit(squares)) = "X" -> "player"
                                [] winner(BoardInit(squares)) = "O" -> "computer"
                                [] OTHER -> None
    /\ (OwnsLine(squares, "X") \/ OwnsLine(squares, "O") \/ EmptyCells(squares) = {})
          => game.complete
    /\ game.complete => complete(BoardInit(squares))

\* A request has ended with the computer's move on a tied board, saved as a
\* cat's game.
C18_Witness ==
    /\ last.op = "views.make_move"
    /\ last.ret \in Positions
    /\ squares[last.ret] = "O"
    /\ tied(BoardInit(squares))
    /\ game = [complete |-> TRUE, winner |-> None]
====
